---- MODULE Spec2Model ----
(***************************************************************************)
(* Model of src/video_generation/video_generator.py: the in-memory job    *)
(* registry of VideoGenerator with start_video_generation,                *)
(* check_job_status and get_video_path, called by parallel request        *)
(* handlers, and the prompt synthesis (generate_ad_prompt with the        *)
(* classifier and the settings table).  Each handler is a thread whose    *)
(* position (pc) advances one write of shared state or one external call  *)
(* at a time (statements that touch only locals, or read what no thread   *)
(* changes, are folded into the step that follows); there is no lock      *)
(* anywhere in the class, so steps of different threads interleave.       *)
(* Spec is the handlers running in parallel, SeqSpec the handlers serving *)
(* one request at a time, SynthSpec a call of generate_ad_prompt or of    *)
(* _get_appropriate_setting alone, CatalogSpec the handlers next to a     *)
(* catalog whose data changes, and LiveSpec a generating job polled       *)
(* without end, with the fairness its progress rests on.                  *)
(***************************************************************************)
EXTENDS Integers, FiniteSets, Sequences, TLC

\* ---------------------------------------------------------------- bounds
NumThreads == 2
MaxJobs == 2
\* requests served in one run
MaxCalls == 3

Threads == 1..NumThreads
JobIds == 1..MaxJobs

\* ------------------------------------------------------------- constants
None == "None"
\* a key that is not in a dict (job.get(key) then yields None)
Missing == "Missing"

\* ---------------------------------------------------------------- strings
\* A str that the code lower-cases, searches or slices is the sequence of its
\* characters.
UpperCase == <<"A", "B", "C", "D", "E", "F", "G", "H", "I", "J", "K", "L", "M",
               "N", "O", "P", "Q", "R", "S", "T", "U", "V", "W", "X", "Y", "Z">>
LowerCase == <<"a", "b", "c", "d", "e", "f", "g", "h", "i", "j", "k", "l", "m",
               "n", "o", "p", "q", "r", "s", "t", "u", "v", "w", "x", "y", "z">>

\* str.lower()
lower(s) ==
    [i \in 1..Len(s) |->
        IF \E k \in 1..Len(UpperCase) : UpperCase[k] = s[i]
        THEN LowerCase[CHOOSE k \in 1..Len(UpperCase) : UpperCase[k] = s[i]]
        ELSE s[i]]

\* word in s, for two str: s has word as a substring
Contains(word, s) ==
    \E i \in 1..(Len(s) - Len(word) + 1) : SubSeq(s, i, i + Len(word) - 1) = word

\* s[:n]
Slice(s, n) == SubSeq(s, 1, IF Len(s) < n THEN Len(s) ELSE n)

\* ------------------------------------------------------ prompt synthesis
\* the words of the rules of _categorize_product, lines 298-305
FashionCategories == {<<"c", "l", "o", "t", "h", "i", "n", "g">>,
    <<"a", "p", "p", "a", "r", "e", "l">>}
FashionKeywords == {<<"s", "h", "i", "r", "t">>,
    <<"d", "r", "e", "s", "s">>,
    <<"j", "a", "c", "k", "e", "t">>,
    <<"p", "a", "n", "t", "s">>}
AccessoriesCategories == {<<"a", "c", "c", "e", "s", "s", "o", "r", "i", "e", "s">>}
AccessoriesKeywords == {<<"w", "a", "t", "c", "h">>,
    <<"j", "e", "w", "e", "l", "r", "y">>,
    <<"b", "a", "g">>,
    <<"s", "u", "n", "g", "l", "a", "s", "s", "e", "s">>}
HomeCategories == {<<"h", "o", "m", "e">>,
    <<"d", "e", "c", "o", "r">>}
HomeKeywords == {<<"m", "u", "g">>,
    <<"c", "a", "n", "d", "l", "e">>,
    <<"p", "i", "l", "l", "o", "w">>}
TechCategories == {<<"t", "e", "c", "h">>,
    <<"e", "l", "e", "c", "t", "r", "o", "n", "i", "c", "s">>}
TechKeywords == {<<"c", "a", "m", "e", "r", "a">>,
    <<"p", "h", "o", "n", "e">>,
    <<"h", "e", "a", "d", "p", "h", "o", "n", "e", "s">>}

\* any(cat in words for cat in categories_lower) or
\* any(word in name_lower for word in keywords)
RuleMatches(words, keywords, categories_lower, name_lower) ==
    \/ \E i \in 1..Len(categories_lower) : categories_lower[i] \in words
    \/ \E word \in keywords : Contains(word, name_lower)

\* variant of _categorize_product: the accessories rule is tried first
_categorize_product_AccessoriesFirst(categories, name) ==
    LET name_lower == lower(name)
        categories_lower == [i \in 1..Len(categories) |-> lower(categories[i])]
    IN  IF RuleMatches(AccessoriesCategories, AccessoriesKeywords, categories_lower, name_lower)
        THEN "accessories"
        ELSE IF RuleMatches(FashionCategories, FashionKeywords, categories_lower, name_lower)
        THEN "fashion"
        ELSE IF RuleMatches(HomeCategories, HomeKeywords, categories_lower, name_lower)
        THEN "home"
        ELSE IF RuleMatches(TechCategories, TechKeywords, categories_lower, name_lower)
        THEN "tech"
        ELSE "lifestyle"

\* lines 293-307
_categorize_product(categories, name) ==
    LET name_lower == lower(name)
        categories_lower == [i \in 1..Len(categories) |-> lower(categories[i])]
    IN  IF RuleMatches(FashionCategories, FashionKeywords, categories_lower, name_lower)
        THEN "fashion"
        ELSE IF RuleMatches(AccessoriesCategories, AccessoriesKeywords, categories_lower, name_lower)
        THEN "accessories"
        ELSE IF RuleMatches(HomeCategories, HomeKeywords, categories_lower, name_lower)
        THEN "home"
        ELSE IF RuleMatches(TechCategories, TechKeywords, categories_lower, name_lower)
        THEN "tech"
        ELSE "lifestyle"

\* lines 311-337: the settings dict
settings ==
    [fashion |->
        [description |-> "A modern, minimalist studio with soft natural lighting from large windows. Clean white backdrop with subtle texture. Professional fashion photography setup.",
         atmosphere |-> "Elegant fashion studio ambiance with premium feeling",
         elements |-> "[\"Professional photography lights with softboxes\", \"Seamless white backdrop\", \"Elegant wooden flooring\", \"Large windows with diffused daylight\", \"Minimalist furniture pieces\", \"Subtle shadows for depth\"]"],
     accessories |->
        [description |-> "A luxurious, contemporary display space with marble surfaces and golden hour lighting. Premium materials and sophisticated ambiance.",
         atmosphere |-> "Upscale boutique environment with luxury appeal",
         elements |-> "[\"Polished marble or granite surfaces\", \"Warm golden hour lighting\", \"Elegant display pedestals\", \"Soft fabric textures in background\", \"Metallic accent pieces\", \"Subtle reflective surfaces\"]"],
     home |->
        [description |-> "A beautiful, modern home interior with natural lighting and cozy atmosphere. Clean design with warm, inviting elements.",
         atmosphere |-> "Comfortable home environment showcasing lifestyle",
         elements |-> "[\"Natural wood surfaces\", \"Soft textiles and cushions\", \"Plants and natural elements\", \"Warm ambient lighting\", \"Modern furniture pieces\", \"Lifestyle props that complement the product\"]"],
     tech |->
        [description |-> "A sleek, futuristic environment with clean lines and modern lighting. High-tech aesthetic with subtle digital elements.",
         atmosphere |-> "Modern tech showcase with innovation feel",
         elements |-> "[\"Clean geometric surfaces\", \"LED accent lighting\", \"Metallic and glass materials\", \"Subtle digital displays\", \"Modern minimalist furniture\", \"Professional studio lighting\"]"],
     lifestyle |->
        [description |-> "A versatile, contemporary space that adapts to showcase the product in its best light. Professional commercial setting.",
         atmosphere |-> "Premium commercial environment with broad appeal",
         elements |-> "[\"Adaptable backdrop system\", \"Professional commercial lighting\", \"Clean, uncluttered surfaces\", \"Neutral color palette\", \"High-quality materials\", \"Flexible styling elements\"]"]]

\* variant of _get_appropriate_setting: the default is the first entry
_get_appropriate_setting_FirstDefault(product_type) ==
    IF product_type \in DOMAIN settings THEN settings[product_type] ELSE settings["fashion"]

\* line 338: settings.get(product_type, settings['lifestyle'])
_get_appropriate_setting(product_type) ==
    IF product_type \in DOMAIN settings THEN settings[product_type] ELSE settings["lifestyle"]

\* setting['description'].split('.')[0].lower() (line 264) of the five
\* descriptions of the settings dict
FirstSentenceLower(description) ==
    CASE description = settings.fashion.description ->
        "a modern, minimalist studio with soft natural lighting from large windows"
      [] description = settings.accessories.description ->
        "a luxurious, contemporary display space with marble surfaces and golden hour lighting"
      [] description = settings.home.description ->
        "a beautiful, modern home interior with natural lighting and cozy atmosphere"
      [] description = settings.tech.description ->
        "a sleek, futuristic environment with clean lines and modern lighting"
      [] description = settings.lifestyle.description ->
        "a versatile, contemporary space that adapts to showcase the product in its best light"

\* setting['atmosphere'].lower() (line 276) of the five atmospheres
AtmosphereLower(atmosphere) ==
    CASE atmosphere = settings.fashion.atmosphere ->
        "elegant fashion studio ambiance with premium feeling"
      [] atmosphere = settings.accessories.atmosphere ->
        "upscale boutique environment with luxury appeal"
      [] atmosphere = settings.home.atmosphere ->
        "comfortable home environment showcasing lifestyle"
      [] atmosphere = settings.tech.atmosphere ->
        "modern tech showcase with innovation feel"
      [] atmosphere = settings.lifestyle.atmosphere ->
        "premium commercial environment with broad appeal"

\* line 270: description[:100]
DescriptionLimit == 100

\* The prompt is the f-string of lines 154-289: the fixed text of the
\* template, cut where a value is put in, and the values put in.
Template(text) == [kind |-> "template", text |-> text, chars |-> <<>>]
SettingText(text) == [kind |-> "setting", text |-> text, chars |-> <<>>]
ProductText(chars) == [kind |-> "product", text |-> "", chars |-> chars]

\* str of a non-negative int: its decimal digits
DecimalDigits == <<"0", "1", "2", "3", "4", "5", "6", "7", "8", "9">>
RECURSIVE Decimal(_)
Decimal(n) ==
    IF n < 10
    THEN <<DecimalDigits[n + 1]>>
    ELSE Decimal(n \div 10) \o <<DecimalDigits[(n % 10) + 1]>>

\* format spec 02d: the decimal digits, zero-padded on the left to two
Format02d(n) == IF n < 10 THEN <<"0">> \o Decimal(n) ELSE Decimal(n)

\* no price: None, an absent key or the empty dict, in the shape of a price
NonePrice == [currency_code |-> None, units |-> 0, nanos |-> 0]

\* line 148: f"${units}.{nanos:02d}", or "affordable price" for an empty
\* price dict
price_text(price) ==
    IF price = NonePrice
    THEN <<"a", "f", "f", "o", "r", "d", "a", "b", "l", "e", " ", "p", "r", "i", "c", "e">>
    ELSE <<"$">> \o Decimal(price.units) \o <<".">> \o Format02d(price.nanos)

\* variant of generate_ad_prompt: the product id is part of the brief
generate_ad_prompt_WithId(product) ==
    LET name == product.name
        description == product.description
        categories == product.categories
        product_type == _categorize_product(categories, name)
        setting == _get_appropriate_setting(product_type)
    IN  <<Template("{ You are an expert cinematic ad director. ... metadata: { prompt_name: "),
          ProductText(name),
          Template(" Cinematic Advertisement ... product id: "),
          SettingText(product.id),
          Template(" room_description: "),
          SettingText(setting.description),
          Template(" camera_setup: ... key_elements: [ Featured product: "),
          ProductText(name),
          Template(" ... Clean, modern aesthetic, "),
          SettingText(setting.atmosphere),
          Template(" ] product_showcase: [ ... ] environmental_elements: "),
          SettingText(setting.elements),
          Template(" negative_prompts: [ ... ] timeline: [ { sequence: 1 ... Cinematic establishing shot of the "),
          SettingText(FirstSentenceLower(setting.description)),
          Template(". Product silhouette ... { sequence: 2 ... Highlight key features: "),
          ProductText(Slice(description, DescriptionLimit)),
          Template("... { sequence: 3 ... Lifestyle demonstration: product naturally in use in a "),
          SettingText(AtmosphereLower(setting.atmosphere)),
          Template(". Camera follows motion ... { sequence: 4 ... } ] } Task: Generate a cinematic, premium-quality advertisement for "),
          ProductText(name),
          Template(". Focus on luxury presentation ... Always interpret the metadata as the creative brief.")>>

\* lines 142-291; price_text (line 148) is computed and used nowhere in the
\* f-string
generate_ad_prompt(product) ==
    LET name == product.name
        description == product.description
        categories == product.categories
        price == product.price_usd
        unused_price_text == price_text(price)
        product_type == _categorize_product(categories, name)
        setting == _get_appropriate_setting(product_type)
    IN  <<Template("{ You are an expert cinematic ad director. ... metadata: { prompt_name: "),
          ProductText(name),
          Template(" Cinematic Advertisement ... } room_description: "),
          SettingText(setting.description),
          Template(" camera_setup: ... key_elements: [ Featured product: "),
          ProductText(name),
          Template(" ... Clean, modern aesthetic, "),
          SettingText(setting.atmosphere),
          Template(" ] product_showcase: [ ... ] environmental_elements: "),
          SettingText(setting.elements),
          Template(" negative_prompts: [ ... ] timeline: [ { sequence: 1 ... Cinematic establishing shot of the "),
          SettingText(FirstSentenceLower(setting.description)),
          Template(". Product silhouette ... { sequence: 2 ... Highlight key features: "),
          ProductText(Slice(description, DescriptionLimit)),
          Template("... { sequence: 3 ... Lifestyle demonstration: product naturally in use in a "),
          SettingText(AtmosphereLower(setting.atmosphere)),
          Template(". Camera follows motion ... { sequence: 4 ... } ] } Task: Generate a cinematic, premium-quality advertisement for "),
          ProductText(name),
          Template(". Focus on luxury presentation ... Always interpret the metadata as the creative brief.")>>

\* ------------------------------------------------------------ the catalog
\* The catalog collaborator: the ids it knows and what it returns for them.
KnownProducts == {"P1", "P2"}
ProductIds == KnownProducts \cup {"PX"}

\* Python's None and an absent dict key, in the shape of a product dict
NoneProduct ==
    [id |-> None, name |-> <<>>, description |-> <<>>, picture |-> None,
     price_usd |-> NonePrice, categories |-> <<>>]
MissingProduct ==
    [id |-> Missing, name |-> <<>>, description |-> <<>>, picture |-> Missing,
     price_usd |-> NonePrice, categories |-> <<>>]

\* The product catalog is another service; its data can change while this
\* one runs.  catalog is the revision of product P1's entry: revision 2 has
\* another name and another price.
VARIABLE catalog

\* lines 51-62: the dict built from the catalog's answer; P2 has no picture
get_product_ok(product_id) ==
    IF product_id = "P1"
    THEN [id |-> "P1",
          name |-> IF catalog = 1
                   THEN <<"G", "o", "l", "d", " ", "W", "a", "t", "c", "h">>
                   ELSE <<"G", "i", "l", "t", " ", "W", "a", "t", "c", "h">>,
          description |-> <<"A", " ", "c", "l", "a", "s", "s", "i", "c", " ", "g", "o", "l", "d", " ", "w", "a", "t", "c", "h">>,
          picture |-> "/static/img/products/watch.jpg",
          price_usd |-> [currency_code |-> "USD", units |-> IF catalog = 1 THEN 109 ELSE 99,
                         nanos |-> 990000000],
          categories |-> <<<<"a", "c", "c", "e", "s", "s", "o", "r", "i", "e", "s">>>>]
    ELSE [id |-> product_id,
          name |-> <<"M", "u", "g">>,
          description |-> <<"A", " ", "s", "i", "m", "p", "l", "e", " ", "m", "u", "g">>,
          picture |-> "",
          price_usd |-> [currency_code |-> "USD", units |-> 8, nanos |-> 990000000],
          categories |-> <<<<"k", "i", "t", "c", "h", "e", "n">>>>]

\* get_product: the product dict, or None when the RPC raises (unknown id,
\* or any transport error: the except clause returns None for all of them).
get_product(product_id) ==
    IF product_id \in KnownProducts
    THEN {get_product_ok(product_id), NoneProduct}
    ELSE {NoneProduct}

\* f"{job_id}.mp4" and os.path.join(self.videos_dir, video_filename)
NoneFile == [stem |-> 0, ext |-> None]
MissingFile == [stem |-> 0, ext |-> Missing]
\* variant of video_filename_of: one file name for every job
video_filename_of_Shared(job_id) == [stem |-> 1, ext |-> ".mp4"]
video_filename_of(job_id) == [stem |-> job_id, ext |-> ".mp4"]
NonePath == [dir |-> None, name |-> NoneFile]
video_path_of(job_id) == [dir |-> "/app/videos", name |-> video_filename_of(job_id)]

\* job['operation'] is None (0) or the operation started for the job
NoneOperation == 0

Terminal == {"completed", "failed"}

\* what a call hands to its caller: a job id, an exception, or a view dict
NoRet ==
    [kind |-> "none", job_id |-> 0, status |-> Missing, product |-> MissingProduct,
     video_filename |-> MissingFile, error |-> Missing]
Returned(job_id) == [NoRet EXCEPT !.kind = "return", !.job_id = job_id]
Raised(e) == [NoRet EXCEPT !.kind = "raise", !.error = e]
View(status, product, video_filename, error) ==
    [kind |-> "view", job_id |-> 0, status |-> status, product |-> product,
     video_filename |-> video_filename, error |-> error]

\* no call of generate_ad_prompt on its own is under way
NoSetting == [description |-> "", atmosphere |-> "", elements |-> ""]
NoSynth == [stage |-> "none", product |-> NoneProduct, other |-> NoneProduct,
            product_type |-> None, prompt |-> <<>>, other_prompt |-> <<>>,
            tag |-> None, setting |-> NoSetting]

\* ------------------------------------------------------------------ state
VARIABLES
    jobs,         \* self.jobs: the dict job id -> job dict
    opState,      \* the external operation of each job, as the service sees it
    files,        \* videos_dir: state of the file <job id>.mp4
    nextId,       \* source of fresh uuid4 values
    calls,        \* requests served so far
    pc,           \* position of each handler thread
    call,         \* the method the thread runs, or ran last
    jid,          \* the job_id of that call: start's local, check's argument
    exc,          \* the exception caught by the except clause
    ret,          \* what the thread's last call returned or raised
    statusAtCall, \* history: the job's status as the check call found it
    pollRes,      \* history: what this call's poll answered
    pollsInCall,  \* history: polls issued by the current call
    writesInCall, \* history: downloads and file writes issued by the current call
    downloads,    \* history: files.download calls per job
    saves,        \* history: completed video.save calls per job
    completions,  \* history: assignments status = 'completed' per job
    submits,      \* history: generate_videos calls per job
    failedJobs,   \* history: the jobs whose status was ever set to 'failed'
    imageOutcome, \* how _fetch_product_image went in the current start call
    submission,   \* what the current start call handed to generate_videos
    synth         \* a call of generate_ad_prompt on its own: arguments and result

vars == <<catalog, jobs, opState, files, nextId, calls, pc, call, jid, exc, ret,
          statusAtCall, pollRes, pollsInCall, writesInCall,
          downloads, saves, completions, submits, failedJobs,
          imageOutcome, submission, synth>>

shared == <<jobs, opState, files, nextId, calls>>
history == <<downloads, saves, completions, submits, failedJobs>>
callHistory == <<statusAtCall, pollRes, pollsInCall, writesInCall>>
startLocals == <<imageOutcome, submission>>

Registered(j) == j \in DOMAIN jobs

Init ==
    /\ catalog = 1
    /\ jobs = <<>>
    /\ opState = [j \in JobIds |-> "none"]
    /\ files = [j \in JobIds |-> "absent"]
    /\ nextId = 1
    /\ calls = 0
    /\ pc = [t \in Threads |-> "idle"]
    /\ call = [t \in Threads |-> "none"]
    /\ jid = [t \in Threads |-> 0]
    /\ exc = [t \in Threads |-> None]
    /\ ret = [t \in Threads |-> NoRet]
    /\ statusAtCall = [t \in Threads |-> None]
    /\ pollRes = [t \in Threads |-> None]
    /\ pollsInCall = [t \in Threads |-> 0]
    /\ writesInCall = [t \in Threads |-> 0]
    /\ downloads = [j \in JobIds |-> 0]
    /\ saves = [j \in JobIds |-> 0]
    /\ completions = [j \in JobIds |-> 0]
    /\ submits = [j \in JobIds |-> 0]
    /\ failedJobs = {}
    /\ imageOutcome = [t \in Threads |-> None]
    /\ submission = [t \in Threads |-> None]
    /\ synth = NoSynth

\* set one key of the dict of job j
SetField(j, f, v) == jobs' = [jobs EXCEPT ![j] = [jobs[j] EXCEPT ![f] = v]]

Goto(t, l) == pc' = [pc EXCEPT ![t] = l]

\* The server hands a request to an idle handler thread.  Idle threads differ
\* in nothing the handlers read, so it is the first idle one that takes it.
Accepts(t) == pc[t] = "idle" /\ \A u \in 1..(t - 1) : pc[u] # "idle"

\* the call of thread t ends with r: its locals (and their history) are gone
EndCall(t, r) ==
    /\ ret' = [ret EXCEPT ![t] = r]
    /\ pc' = [pc EXCEPT ![t] = "idle"]
    /\ exc' = [exc EXCEPT ![t] = None]
    /\ statusAtCall' = [statusAtCall EXCEPT ![t] = None]
    /\ pollRes' = [pollRes EXCEPT ![t] = None]
    /\ pollsInCall' = [pollsInCall EXCEPT ![t] = 0]
    /\ writesInCall' = [writesInCall EXCEPT ![t] = 0]
    /\ imageOutcome' = [imageOutcome EXCEPT ![t] = None]
    /\ submission' = [submission EXCEPT ![t] = None]

\* ------------------------------------------------ start_video_generation
\* line 400: str(ValueError(f"Product {product_id} not found"))
ProductNotFound(product_id) ==
    CASE product_id = "P1" -> "Product P1 not found"
      [] product_id = "P2" -> "Product P2 not found"
      [] OTHER -> "Product PX not found"

\* the dict of lines 409-418
NewJob(product_id, p) ==
    [status |-> "starting",
     product_id |-> product_id,
     product |-> p,
     prompt |-> generate_ad_prompt(p),
     operation |-> NoneOperation,
     video_path |-> NonePath,
     error |-> None,
     video_filename |-> MissingFile]

\* variant of uuid4: the value drawn repeats an id of the registry
uuid4_Repeats == IF jobs = <<>> THEN nextId ELSE CHOOSE j \in DOMAIN jobs : TRUE

\* line 395: job_id = str(uuid.uuid4()), a value no earlier call has drawn
uuid4 == nextId

\* variant of StartCall: an unknown product is recorded as a failed job
StartCall_FailedJob(t, product_id) ==
    /\ Accepts(t)
    /\ calls < MaxCalls
    /\ calls' = calls + 1
    /\ call' = [call EXCEPT ![t] = "start"]
    /\ nextId <= MaxJobs
    /\ \E p \in get_product(product_id) :
         /\ jobs' = (nextId :>
                       IF p = NoneProduct
                       THEN [NewJob(product_id, MissingProduct) EXCEPT
                               !.status = "failed",
                               !.error = ProductNotFound(product_id)]
                       ELSE NewJob(product_id, p)) @@ jobs
         /\ nextId' = nextId + 1
         /\ jid' = [jid EXCEPT ![t] = nextId]
         /\ IF p = NoneProduct
            THEN EndCall(t, Returned(nextId))
            ELSE /\ ret' = [ret EXCEPT ![t] = NoRet]
                 /\ Goto(t, "s_submit")
                 /\ UNCHANGED <<exc, callHistory, startLocals>>
    /\ UNCHANGED <<synth, catalog, opState, files, history>>

\* lines 395-418: uuid, catalog lookup; no product => ValueError and no job
\* record; else the prompt and self.jobs[job_id] = {...}
StartCall(t, product_id) ==
    /\ Accepts(t)
    /\ calls < MaxCalls
    /\ calls' = calls + 1
    /\ call' = [call EXCEPT ![t] = "start"]
    /\ \E p \in get_product(product_id) :
         IF p = NoneProduct
         THEN /\ EndCall(t, Raised(ProductNotFound(product_id)))
              /\ jid' = [jid EXCEPT ![t] = 0]
              /\ UNCHANGED <<jobs, nextId>>
         ELSE /\ nextId <= MaxJobs
              /\ jobs' = (uuid4 :> NewJob(product_id, p)) @@ jobs
              /\ nextId' = nextId + 1
              /\ jid' = [jid EXCEPT ![t] = uuid4]
              /\ ret' = [ret EXCEPT ![t] = NoRet]
              /\ Goto(t, "s_submit")
              /\ UNCHANGED <<exc, callHistory, startLocals>>
    /\ UNCHANGED <<synth, catalog, opState, files, history>>

\* how the image pipeline can go for a product that has a picture URL
ImageOutcomes == {"fetch_error", "bad_status", "timeout", "undecodable", "ok"}

NoneImage == [image_bytes |-> None, mime_type |-> None]

\* lines 340-383: None without a picture URL (line 350) and from the one
\* except clause that catches every exception of requests.get,
\* raise_for_status, Image.open, convert and save (line 383), else the JPEG
\* bytes; "left" is the way the function was left
_fetch_product_image(product, outcome) ==
    IF product.picture = ""
    THEN [left |-> "no_picture", image_data |-> NoneImage]
    ELSE IF outcome \in {"fetch_error", "bad_status", "timeout", "undecodable"}
    THEN [left |-> "exception", image_data |-> NoneImage]
    ELSE [left |-> "processed",
          image_data |-> [image_bytes |-> "jpeg", mime_type |-> "image/jpeg"]]

\* lines 429-453: the arguments of generate_videos
GenerateVideosArgs(image_data) == IF image_data = NoneImage THEN "prompt_only" ELSE "prompt_and_image"

\* variant of StartSubmit: an exception of the image fetch reaches start's
\* except clause
StartSubmit_ImageFatal(t) ==
    /\ pc[t] = "s_submit"
    /\ \E fetched \in {_fetch_product_image(jobs[jid[t]].product, o) : o \in ImageOutcomes} :
         /\ imageOutcome' = [imageOutcome EXCEPT ![t] = fetched.left]
         /\ IF fetched.left = "exception"
            THEN /\ submission' = submission
                 /\ exc' = [exc EXCEPT ![t] = "image error"]
                 /\ SetField(jid[t], "status", "failed")
                 /\ failedJobs' = failedJobs \cup {jid[t]}
                 /\ Goto(t, "s_fail")
                 /\ UNCHANGED <<opState, submits>>
            ELSE /\ submission' = [submission EXCEPT ![t] = GenerateVideosArgs(fetched.image_data)]
                 /\ submits' = [submits EXCEPT ![jid[t]] = @ + 1]
                 /\ \/ /\ opState' = [opState EXCEPT ![jid[t]] = "pending"]
                       /\ SetField(jid[t], "operation", jid[t])
                       /\ Goto(t, "s_set_gen")
                       /\ UNCHANGED <<exc, failedJobs>>
                    \/ /\ exc' = [exc EXCEPT ![t] = "submit error"]
                       /\ SetField(jid[t], "status", "failed")
                       /\ failedJobs' = failedJobs \cup {jid[t]}
                       /\ Goto(t, "s_fail")
                       /\ UNCHANGED opState
    /\ UNCHANGED <<synth, catalog, files, nextId, calls, call, jid, ret, callHistory,
                   downloads, saves, completions>>

\* lines 420-455 and 461-463: the image fetch, which never raises, and
\* generate_videos with or without the image: it hands back an operation,
\* stored in the job, or it raises and the except clause sets status = 'failed'
StartSubmit(t) ==
    /\ pc[t] = "s_submit"
    /\ \E fetched \in {_fetch_product_image(jobs[jid[t]].product, o) : o \in ImageOutcomes} :
         /\ imageOutcome' = [imageOutcome EXCEPT ![t] = fetched.left]
         /\ submission' = [submission EXCEPT ![t] = GenerateVideosArgs(fetched.image_data)]
    /\ submits' = [submits EXCEPT ![jid[t]] = @ + 1]
    /\ \/ /\ opState' = [opState EXCEPT ![jid[t]] = "pending"]
          /\ SetField(jid[t], "operation", jid[t])
          /\ Goto(t, "s_set_gen")
          /\ UNCHANGED <<exc, failedJobs>>
       \/ /\ exc' = [exc EXCEPT ![t] = "submit error"]
          /\ SetField(jid[t], "status", "failed")
          /\ failedJobs' = failedJobs \cup {jid[t]}
          /\ Goto(t, "s_fail")
          /\ UNCHANGED opState
    /\ UNCHANGED <<synth, catalog, files, nextId, calls, call, jid, ret, callHistory,
                   downloads, saves, completions>>

\* variant of StartSetGenerating: the id is returned with the status left as is
StartSetGenerating_NoStatus(t) ==
    /\ pc[t] = "s_set_gen"
    /\ EndCall(t, Returned(jid[t]))
    /\ UNCHANGED <<synth, catalog, jobs, call, jid, opState, files, nextId, calls, history>>

\* lines 456-459: status = 'generating'; return job_id
StartSetGenerating(t) ==
    /\ pc[t] = "s_set_gen"
    /\ SetField(jid[t], "status", "generating")
    /\ EndCall(t, Returned(jid[t]))
    /\ UNCHANGED <<synth, catalog, call, jid, opState, files, nextId, calls, history>>

\* variant of StartFailError: the except clause submits again instead of raising
StartFailError_Retry(t) ==
    /\ pc[t] = "s_fail"
    /\ SetField(jid[t], "error", exc[t])
    /\ Goto(t, "s_submit")
    /\ UNCHANGED <<synth, catalog, startLocals, call, jid, exc, ret, callHistory, opState, files, nextId, calls, history>>

\* lines 464-465: error = str(e); raise
StartFailError(t) ==
    /\ pc[t] = "s_fail"
    /\ SetField(jid[t], "error", exc[t])
    /\ EndCall(t, Raised(exc[t]))
    /\ UNCHANGED <<synth, catalog, call, jid, opState, files, nextId, calls, history>>

\* ------------------------------------------------------- check_job_status
\* line 470
NotFoundView == View("not_found", MissingProduct, MissingFile, "Job not found")

\* variant of PollGuard: the status is not looked at
PollGuard_AnyStatus(job) == job.operation # NoneOperation

\* line 475: if job['status'] == 'generating' and job['operation']
PollGuard(job) == job.status = "generating" /\ job.operation # NoneOperation

\* lines 469-475: unknown id => the not_found view, nothing touched; else
\* job = self.jobs[job_id] and the test that decides whether to poll
CheckEntry(t, job_id) ==
    /\ Accepts(t)
    /\ call' = [call EXCEPT ![t] = "check"]
    /\ jid' = [jid EXCEPT ![t] = job_id]
    /\ IF ~Registered(job_id)
       THEN /\ EndCall(t, NotFoundView)
            /\ UNCHANGED jobs
       ELSE /\ ret' = [ret EXCEPT ![t] = NoRet]
            /\ statusAtCall' = [statusAtCall EXCEPT ![t] = jobs[job_id].status]
            /\ Goto(t, IF PollGuard(jobs[job_id]) THEN "c_poll" ELSE "c_view")
            /\ UNCHANGED <<jobs, exc, pollRes, pollsInCall, writesInCall, startLocals>>
    /\ UNCHANGED <<synth, catalog, opState, files, nextId, history>>

\* variant of CheckCall: an unknown id gets an empty record (setdefault)
CheckCall_SetDefault(t, job_id) ==
    /\ Accepts(t)
    /\ calls < MaxCalls
    /\ calls' = calls + 1
    /\ call' = [call EXCEPT ![t] = "check"]
    /\ jid' = [jid EXCEPT ![t] = job_id]
    /\ IF ~Registered(job_id)
       THEN /\ jobs' = (job_id :> [NewJob(None, MissingProduct) EXCEPT
                                     !.status = "not_found"]) @@ jobs
            /\ EndCall(t, NotFoundView)
       ELSE /\ ret' = [ret EXCEPT ![t] = NoRet]
            /\ statusAtCall' = [statusAtCall EXCEPT ![t] = jobs[job_id].status]
            /\ Goto(t, IF PollGuard(jobs[job_id]) THEN "c_poll" ELSE "c_view")
            /\ UNCHANGED <<jobs, exc, pollRes, pollsInCall, writesInCall, startLocals>>
    /\ UNCHANGED <<synth, catalog, opState, files, nextId, history>>

\* a check request, one of the MaxCalls requests the service gets
CheckCall(t, job_id) ==
    /\ calls < MaxCalls
    /\ calls' = calls + 1
    /\ CheckEntry(t, job_id)

\* variant of CheckPoll: a not-done answer is polled again within the call
CheckPoll_Repoll(t) ==
    /\ pc[t] = "c_poll"
    /\ pollsInCall[t] < 2
    /\ pollsInCall' = [pollsInCall EXCEPT ![t] = @ + 1]
    /\ \/ /\ exc' = [exc EXCEPT ![t] = "poll error"]
          /\ pollRes' = [pollRes EXCEPT ![t] = "raised"]
          /\ Goto(t, "c_exc")
       \/ /\ pollRes' = [pollRes EXCEPT ![t] = opState[jobs[jid[t]].operation]]
          /\ Goto(t, CASE opState[jobs[jid[t]].operation] = "pending" ->
                            IF pollsInCall[t] = 0 THEN "c_poll" ELSE "c_view"
                       [] opState[jobs[jid[t]].operation] = "done_video" -> "c_download"
                       [] OTHER -> "c_empty")
          /\ UNCHANGED exc
    /\ UNCHANGED <<synth, catalog, startLocals, shared, call, jid, ret, statusAtCall, writesInCall, history>>

\* variant of CheckPoll: a not-done answer is handled like a done one without videos
CheckPoll_PendingIsEmpty(t) ==
    /\ pc[t] = "c_poll"
    /\ pollsInCall' = [pollsInCall EXCEPT ![t] = @ + 1]
    /\ \/ /\ exc' = [exc EXCEPT ![t] = "poll error"]
          /\ pollRes' = [pollRes EXCEPT ![t] = "raised"]
          /\ Goto(t, "c_exc")
       \/ /\ pollRes' = [pollRes EXCEPT ![t] = opState[jobs[jid[t]].operation]]
          /\ Goto(t, CASE opState[jobs[jid[t]].operation] = "done_video" -> "c_download"
                       [] OTHER -> "c_empty")
          /\ UNCHANGED exc
    /\ UNCHANGED <<synth, catalog, startLocals, shared, call, jid, ret, statusAtCall, writesInCall, history>>

\* lines 477-484: operations.get raises, or answers not done, done with
\* videos, or done without videos
CheckPoll(t) ==
    /\ pc[t] = "c_poll"
    /\ pollsInCall' = [pollsInCall EXCEPT ![t] = @ + 1]
    /\ \/ /\ exc' = [exc EXCEPT ![t] = "poll error"]
          /\ pollRes' = [pollRes EXCEPT ![t] = "raised"]
          /\ Goto(t, "c_exc")
       \/ /\ pollRes' = [pollRes EXCEPT ![t] = opState[jobs[jid[t]].operation]]
          /\ Goto(t, CASE opState[jobs[jid[t]].operation] = "pending" -> "c_view"
                       [] opState[jobs[jid[t]].operation] = "done_video" -> "c_download"
                       [] OTHER -> "c_empty")
          /\ UNCHANGED exc
    /\ UNCHANGED <<synth, catalog, startLocals, shared, call, jid, ret, statusAtCall, writesInCall, history>>

\* line 492: self.client.files.download(file=generated_video.video)
CheckDownload(t) ==
    /\ pc[t] = "c_download"
    /\ downloads' = [downloads EXCEPT ![jid[t]] = @ + 1]
    /\ writesInCall' = [writesInCall EXCEPT ![t] = @ + 1]
    /\ \/ Goto(t, "c_save_begin") /\ UNCHANGED exc
       \/ exc' = [exc EXCEPT ![t] = "download error"] /\ Goto(t, "c_exc")
    /\ UNCHANGED <<synth, catalog, startLocals, shared, call, jid, ret, statusAtCall, pollRes, pollsInCall,
                   saves, completions, submits, failedJobs>>

\* line 493, first half: video.save opens <job_id>.mp4 for writing (the file
\* exists from here on, with part of its bytes), or fails to open it
CheckSaveBegin(t) ==
    /\ pc[t] = "c_save_begin"
    /\ \/ /\ files' = [files EXCEPT ![video_filename_of(jid[t]).stem] = "partial"]
          /\ writesInCall' = [writesInCall EXCEPT ![t] = @ + 1]
          /\ Goto(t, "c_save_end")
          /\ UNCHANGED exc
       \/ /\ exc' = [exc EXCEPT ![t] = "save error"]
          /\ Goto(t, "c_exc")
          /\ UNCHANGED <<files, writesInCall>>
    /\ UNCHANGED <<synth, catalog, startLocals, jobs, opState, nextId, calls, call, jid, ret, statusAtCall, pollRes,
                   pollsInCall, history>>

\* variant of CheckSaveEnd: the write completes under a lock of the whole
\* registry, which a start call holds from registration to return
CheckSaveEnd_RegistryLock(t) ==
    /\ pc[t] = "c_save_end"
    /\ \A u \in Threads \ {t} : pc[u] \notin {"s_submit", "s_set_gen", "s_fail"}
    /\ \/ /\ files' = [files EXCEPT ![video_filename_of(jid[t]).stem] = "complete"]
          /\ saves' = [saves EXCEPT ![jid[t]] = @ + 1]
          /\ Goto(t, "c_set_completed")
          /\ UNCHANGED exc
       \/ /\ exc' = [exc EXCEPT ![t] = "save error"]
          /\ Goto(t, "c_exc")
          /\ UNCHANGED <<files, saves>>
    /\ UNCHANGED <<synth, catalog, startLocals, jobs, opState, nextId, calls, call, jid, ret, callHistory,
                   downloads, completions, submits, failedJobs>>

\* line 493, second half: the last bytes are written and the file is closed,
\* or the write fails and leaves the truncated file behind
CheckSaveEnd(t) ==
    /\ pc[t] = "c_save_end"
    /\ \/ /\ files' = [files EXCEPT ![video_filename_of(jid[t]).stem] = "complete"]
          /\ saves' = [saves EXCEPT ![jid[t]] = @ + 1]
          /\ Goto(t, "c_set_completed")
          /\ UNCHANGED exc
       \/ /\ exc' = [exc EXCEPT ![t] = "save error"]
          /\ Goto(t, "c_exc")
          /\ UNCHANGED <<files, saves>>
    /\ UNCHANGED <<synth, catalog, startLocals, jobs, opState, nextId, calls, call, jid, ret, callHistory,
                   downloads, completions, submits, failedJobs>>

\* variant of CheckSetCompleted: the status is left as it is after the save
CheckSetCompleted_NoStatus(t) ==
    /\ pc[t] = "c_set_completed"
    /\ Goto(t, "c_set_result")
    /\ UNCHANGED <<synth, catalog, startLocals, jobs, opState, files, nextId, calls, call, jid, exc, ret,
                   callHistory, history>>

\* line 495
CheckSetCompleted(t) ==
    /\ pc[t] = "c_set_completed"
    /\ SetField(jid[t], "status", "completed")
    /\ completions' = [completions EXCEPT ![jid[t]] = @ + 1]
    /\ Goto(t, "c_set_result")
    /\ UNCHANGED <<synth, catalog, startLocals, opState, files, nextId, calls, call, jid, exc, ret, callHistory,
                   downloads, saves, submits, failedJobs>>

\* lines 496-497: video_path (which nothing reads) and video_filename
CheckSetResult(t) ==
    /\ pc[t] = "c_set_result"
    /\ jobs' = [jobs EXCEPT ![jid[t]] =
                  [jobs[jid[t]] EXCEPT !.video_path = video_path_of(jid[t]),
                                       !.video_filename = video_filename_of(jid[t])]]
    /\ Goto(t, "c_view")
    /\ UNCHANGED <<synth, catalog, startLocals, opState, files, nextId, calls, call, jid, exc, ret, callHistory, history>>

\* line 502: done without videos
CheckEmptyStatus(t) ==
    /\ pc[t] = "c_empty"
    /\ SetField(jid[t], "status", "failed")
    /\ failedJobs' = failedJobs \cup {jid[t]}
    /\ Goto(t, "c_empty_error")
    /\ UNCHANGED <<synth, catalog, startLocals, opState, files, nextId, calls, call, jid, exc, ret, callHistory,
                   downloads, saves, completions, submits>>

\* variant of CheckEmptyError: the empty result leaves no error behind
CheckEmptyError_NoError(t) ==
    /\ pc[t] = "c_empty_error"
    /\ Goto(t, "c_view")
    /\ UNCHANGED <<synth, catalog, startLocals, jobs, opState, files, nextId, calls, call, jid, exc, ret, callHistory, history>>

\* line 503
CheckEmptyError(t) ==
    /\ pc[t] = "c_empty_error"
    /\ SetField(jid[t], "error", "Video generation completed but no videos were generated")
    /\ Goto(t, "c_view")
    /\ UNCHANGED <<synth, catalog, startLocals, opState, files, nextId, calls, call, jid, exc, ret, callHistory, history>>

\* job.get(key): None when the key is absent
DictGetFile(v) == IF v = MissingFile THEN NoneFile ELSE v

\* variant of JobView: the view's product is looked up in the catalog again
JobView_Refetch(job) ==
    View(job.status, get_product_ok(job.product_id), DictGetFile(job.video_filename), job.error)

\* lines 510-515: the view dict built from the job
JobView(job) == View(job.status, job.product, DictGetFile(job.video_filename), job.error)

CheckReturnView(t) ==
    /\ pc[t] = "c_view"
    /\ EndCall(t, JobView(jobs[jid[t]]))
    /\ UNCHANGED <<synth, catalog, call, jid, shared, history>>

\* lines 517-519: except Exception: job['status'] = 'failed'
CheckExcStatus(t) ==
    /\ pc[t] = "c_exc"
    /\ SetField(jid[t], "status", "failed")
    /\ failedJobs' = failedJobs \cup {jid[t]}
    /\ Goto(t, "c_exc_error")
    /\ UNCHANGED <<synth, catalog, startLocals, opState, files, nextId, calls, call, jid, exc, ret, callHistory,
                   downloads, saves, completions, submits>>

\* variant of CheckExcError: the except clause re-raises, as start's does
CheckExcError_Reraise(t) ==
    /\ pc[t] = "c_exc_error"
    /\ SetField(jid[t], "error", exc[t])
    /\ EndCall(t, Raised(exc[t]))
    /\ UNCHANGED <<synth, catalog, call, jid, opState, files, nextId, calls, history>>

\* lines 520-521: job['error'] = str(e); return {'status': 'failed', 'error': str(e)}
CheckExcError(t) ==
    /\ pc[t] = "c_exc_error"
    /\ SetField(jid[t], "error", exc[t])
    /\ EndCall(t, View("failed", MissingProduct, MissingFile, exc[t]))
    /\ UNCHANGED <<synth, catalog, call, jid, opState, files, nextId, calls, history>>

\* --------------------------------------------------------- get_video_path
\* what get_video_path returns: the joined path, or None
ReturnedPath(video_filename) == [NoRet EXCEPT !.kind = "path", !.video_filename = video_filename]
ReturnedNoPath == [NoRet EXCEPT !.kind = "no_path"]

\* lines 523-528: os.path.exists on videos_dir/<video_filename>
get_video_path(video_filename) ==
    IF files[video_filename.stem] # "absent"
    THEN ReturnedPath(video_filename)
    ELSE ReturnedNoPath

\* a request for the file of a job id: the whole method is one look at the
\* directory
RetrieveCall(t, video_filename) ==
    /\ Accepts(t)
    /\ calls < MaxCalls
    /\ calls' = calls + 1
    /\ call' = [call EXCEPT ![t] = "retrieve"]
    /\ jid' = [jid EXCEPT ![t] = 0]
    /\ EndCall(t, get_video_path(video_filename))
    /\ UNCHANGED <<synth, catalog, jobs, opState, files, nextId, history>>

\* ------------------------------------------------- the external operation
\* variant of OperationFinishes: the operation's completion is pushed to the
\* service, which marks the job completed
OperationFinishes_Callback(j) ==
    /\ opState[j] = "pending"
    /\ \/ \E t \in Threads : pc[t] = "c_poll" /\ jid[t] = j
       \/ calls = MaxCalls /\ \A t \in Threads : pc[t] = "idle"
    /\ \E r \in {"done_video", "done_empty"} : opState' = [opState EXCEPT ![j] = r]
    /\ SetField(j, "status", "completed")
    /\ UNCHANGED <<synth, catalog, startLocals, files, nextId, calls, pc, call, jid, exc, ret, callHistory, history>>

\* The long-running operation finishes, with a video or with none.  The
\* program sees the operation only through operations.get, so it is enough to
\* let it finish when a poll of it is about to be issued, or when the last
\* request has been served and no poll will ever see it.
OperationFinishes(j) ==
    /\ opState[j] = "pending"
    /\ \/ \E t \in Threads : pc[t] = "c_poll" /\ jid[t] = j
       \/ calls = MaxCalls /\ \A t \in Threads : pc[t] = "idle"
    /\ \E r \in {"done_video", "done_empty"} : opState' = [opState EXCEPT ![j] = r]
    /\ UNCHANGED <<synth, catalog, startLocals, jobs, files, nextId, calls, pc, call, jid, exc, ret, callHistory, history>>

\* ---------------------------------------------------------- specification
StartStep(t) ==
    \/ \E p \in ProductIds : StartCall(t, p)
    \/ StartSubmit(t)
    \/ StartSetGenerating(t)
    \/ StartFailError(t)

CheckStep(t) ==
    \/ \E j \in JobIds : CheckCall(t, j)
    \/ CheckPoll(t)
    \/ CheckDownload(t)
    \/ CheckSaveBegin(t)
    \/ CheckSaveEnd(t)
    \/ CheckSetCompleted(t)
    \/ CheckSetResult(t)
    \/ CheckEmptyStatus(t)
    \/ CheckEmptyError(t)
    \/ CheckReturnView(t)
    \/ CheckExcStatus(t)
    \/ CheckExcError(t)

\* the catalog's owner revises the entry of product P1; the change matters to
\* this service once a job holds the entry's earlier revision
CatalogChanges ==
    /\ catalog = 1
    /\ \E j \in DOMAIN jobs : jobs[j].product_id = "P1"
    /\ catalog' = 2
    /\ UNCHANGED <<shared, pc, call, jid, exc, ret, callHistory, history, startLocals, synth>>

Next ==
    \/ \E t \in Threads : StartStep(t)
    \/ \E t \in Threads : CheckStep(t)
    \/ \E t \in Threads, j \in JobIds : RetrieveCall(t, video_filename_of(j))
    \/ \E j \in JobIds : OperationFinishes(j)

Spec == Init /\ [][Next]_vars

\* The same handlers with requests served one at a time: a call begins and
\* steps only while every other thread is idle.
SeqNext ==
    \/ \E t \in Threads :
         /\ \A u \in Threads \ {t} : pc[u] = "idle"
         /\ \/ StartStep(t)
            \/ CheckStep(t)
            \/ \E j \in JobIds : RetrieveCall(t, video_filename_of(j))
    \/ \E j \in JobIds : OperationFinishes(j)

SeqSpec == Init /\ [][SeqNext]_vars

\* The handlers, interleaved, next to a catalog whose data changes; the start
\* requests are for the product whose entry changes, or for an unknown one.
CatalogNext ==
    \/ \E t \in Threads, p \in {"P1", "PX"} : StartCall(t, p)
    \/ \E t \in Threads : StartSubmit(t) \/ StartSetGenerating(t) \/ StartFailError(t)
    \/ \E t \in Threads : CheckStep(t)
    \/ \E t \in Threads, j \in JobIds : RetrieveCall(t, video_filename_of(j))
    \/ \E j \in JobIds : OperationFinishes(j)
    \/ CatalogChanges

CatalogSpec == Init /\ [][CatalogNext]_vars

\* ------------------------------------------------------------- liveness
\* Clients that keep polling: check requests outside the budget of MaxCalls.
LiveCheckCall(t, job_id) ==
    /\ CheckEntry(t, job_id)
    /\ UNCHANGED calls

\* the steps of a check call after its entry
CheckRun(t) ==
    \/ CheckPoll(t)
    \/ CheckDownload(t)
    \/ CheckSaveBegin(t)
    \/ CheckSaveEnd(t)
    \/ CheckSetCompleted(t)
    \/ CheckSetResult(t)
    \/ CheckEmptyStatus(t)
    \/ CheckEmptyError(t)
    \/ CheckReturnView(t)
    \/ CheckExcStatus(t)
    \/ CheckExcError(t)

\* the jobs of LiveInit, which the clients poll
LiveJobs == {1}

\* start_video_generation("P1") has returned job 1: the job is generating and
\* its operation is pending
LiveInit ==
    /\ catalog = 1
    /\ jobs = (1 :> [NewJob("P1", get_product_ok("P1")) EXCEPT
                       !.operation = 1, !.status = "generating"])
    /\ opState = [j \in JobIds |-> IF j = 1 THEN "pending" ELSE "none"]
    /\ files = [j \in JobIds |-> "absent"]
    /\ nextId = 2
    /\ calls = 1
    /\ pc = [t \in Threads |-> "idle"]
    /\ call = [t \in Threads |-> IF t = 1 THEN "start" ELSE "none"]
    /\ jid = [t \in Threads |-> IF t = 1 THEN 1 ELSE 0]
    /\ exc = [t \in Threads |-> None]
    /\ ret = [t \in Threads |-> IF t = 1 THEN Returned(1) ELSE NoRet]
    /\ statusAtCall = [t \in Threads |-> None]
    /\ pollRes = [t \in Threads |-> None]
    /\ pollsInCall = [t \in Threads |-> 0]
    /\ writesInCall = [t \in Threads |-> 0]
    /\ downloads = [j \in JobIds |-> 0]
    /\ saves = [j \in JobIds |-> 0]
    /\ completions = [j \in JobIds |-> 0]
    /\ submits = [j \in JobIds |-> IF j = 1 THEN 1 ELSE 0]
    /\ failedJobs = {}
    /\ imageOutcome = [t \in Threads |-> None]
    /\ submission = [t \in Threads |-> None]
    /\ synth = NoSynth

LiveNext ==
    \/ \E t \in Threads, j \in LiveJobs : LiveCheckCall(t, j)
    \/ \E t \in Threads : CheckRun(t)
    \/ \E j \in LiveJobs : OperationFinishes(j)

\* A handler thread that can take a step takes one (the threads of the
\* server are scheduled); check_job_status keeps being called for every job
\* id; and the operation, which can report done whenever it is polled, does
\* report done at one of the polls.
LiveFairness ==
    /\ \A t \in Threads : WF_vars(CheckRun(t))
    /\ \A j \in LiveJobs : WF_vars(\E t \in Threads : LiveCheckCall(t, j))
    /\ \A j \in LiveJobs : SF_vars(OperationFinishes(j))

LiveSpec == LiveInit /\ [][LiveNext]_vars /\ LiveFairness

\* ------------------------------------------- generate_ad_prompt on its own
\* products handed to generate_ad_prompt: names, category lists and
\* descriptions
SynthNames ==
    {<<"L", "e", "a", "t", "h", "e", "r", " ", "W", "a", "t", "c", "h">>,
     <<"D", "e", "n", "i", "m", " ", "J", "a", "c", "k", "e", "t">>,
     <<"C", "o", "f", "f", "e", "e", " ", "M", "u", "g">>,
     <<"C", "A", "M", "E", "R", "A", " ", "B", "a", "g">>,
     <<"D", "r", "e", "s", "s", "e", "r", " ", "P", "i", "l", "l", "o", "w">>,
     <<"H", "e", "a", "d", "p", "h", "o", "n", "e", "s">>,
     <<"V", "a", "s", "e">>,
     <<"S", "m", "a", "r", "t", "p", "h", "o", "n", "e">>}
SynthCategories ==
    {<<>>,
     <<<<"c", "l", "o", "t", "h", "i", "n", "g">>>>,
     <<<<"A", "c", "c", "e", "s", "s", "o", "r", "i", "e", "s">>>>,
     <<<<"d", "e", "c", "o", "r">>, <<"t", "e", "c", "h">>>>,
     <<<<"e", "l", "e", "c", "t", "r", "o", "n", "i", "c", "s">>, <<"a", "p", "p", "a", "r", "e", "l">>>>,
     <<<<"k", "i", "t", "c", "h", "e", "n">>>>}
\* one description shorter and one longer than the slice of line 270
SynthDescriptions ==
    {<<"A", " ", "c", "l", "a", "s", "s", "i", "c", " ", "g", "o", "l", "d", " ", "w", "a", "t", "c", "h">>,
     [i \in 1..(DescriptionLimit + 20) |-> IF i % 2 = 1 THEN "a" ELSE "b"]}

\* a price as the catalog has them, and one whose nanos take the padding
SynthPrices ==
    {[currency_code |-> "USD", units |-> 109, nanos |-> 990000000],
     [currency_code |-> "USD", units |-> 12, nanos |-> 5]}

SynthProducts ==
    {[id |-> "P1", name |-> n, description |-> d,
      picture |-> "/static/img/products/watch.jpg",
      price_usd |-> m,
      categories |-> c] : n \in SynthNames, d \in SynthDescriptions, c \in SynthCategories,
                          m \in SynthPrices}

\* the tags _get_appropriate_setting is called with: the five keys of the
\* settings dict, and strings that are no key of it
KnownTags == {"fashion", "accessories", "home", "tech", "lifestyle"}
SynthTags == KnownTags \cup {"unknown", "", "FASHION", "Home", "fashion "}

\* products to compare p with: p itself, p under another id with another
\* picture, and p under another name
SynthOthers(p) ==
    {p,
     [p EXCEPT !.id = "P2", !.picture = ""],
     [p EXCEPT !.id = "P2", !.picture = "https://cdn.example/p2.png"],
     [p EXCEPT !.name = <<"O", "t", "h", "e", "r">>]}

\* the registry before the call: empty, or holding the job of one finished
\* start
SynthInit ==
    /\ catalog = 1
    /\ \/ /\ jobs = <<>>
          /\ opState = [j \in JobIds |-> "none"]
          /\ nextId = 1
          /\ calls = 0
          /\ call = [t \in Threads |-> "none"]
          /\ jid = [t \in Threads |-> 0]
          /\ ret = [t \in Threads |-> NoRet]
          /\ submits = [j \in JobIds |-> 0]
       \/ /\ jobs = (1 :> [NewJob("P1", get_product_ok("P1")) EXCEPT
                              !.operation = 1, !.status = "generating"])
          /\ opState = [j \in JobIds |-> IF j = 1 THEN "pending" ELSE "none"]
          /\ nextId = 2
          /\ calls = 1
          /\ call = [t \in Threads |-> IF t = 1 THEN "start" ELSE "none"]
          /\ jid = [t \in Threads |-> IF t = 1 THEN 1 ELSE 0]
          /\ ret = [t \in Threads |-> IF t = 1 THEN Returned(1) ELSE NoRet]
          /\ submits = [j \in JobIds |-> IF j = 1 THEN 1 ELSE 0]
    /\ files = [j \in JobIds |-> "absent"]
    /\ pc = [t \in Threads |-> "idle"]
    /\ exc = [t \in Threads |-> None]
    /\ statusAtCall = [t \in Threads |-> None]
    /\ pollRes = [t \in Threads |-> None]
    /\ pollsInCall = [t \in Threads |-> 0]
    /\ writesInCall = [t \in Threads |-> 0]
    /\ downloads = [j \in JobIds |-> 0]
    /\ saves = [j \in JobIds |-> 0]
    /\ completions = [j \in JobIds |-> 0]
    /\ failedJobs = {}
    /\ imageOutcome = [t \in Threads |-> None]
    /\ submission = [t \in Threads |-> None]
    /\ \/ \E p \in SynthProducts : \E q \in SynthOthers(p) :
            synth = [NoSynth EXCEPT !.stage = "called", !.product = p, !.other = q]
       \/ \E tag \in SynthTags :
            synth = [NoSynth EXCEPT !.stage = "select_called", !.tag = tag]

\* lines 144-151: the locals, and the product type
SynthCategorize ==
    /\ synth.stage = "called"
    /\ synth' = [synth EXCEPT
                   !.stage = "categorized",
                   !.product_type = _categorize_product(synth.product.categories,
                                                        synth.product.name)]
    /\ UNCHANGED <<catalog, shared, pc, call, jid, exc, ret, callHistory, history, startLocals>>

\* lines 152-291: the setting and the f-string, for the product and for the
\* product it is compared with
SynthReturn ==
    /\ synth.stage = "categorized"
    /\ synth' = [synth EXCEPT
                   !.stage = "returned",
                   !.prompt = generate_ad_prompt(synth.product),
                   !.other_prompt = generate_ad_prompt(synth.other)]
    /\ UNCHANGED <<catalog, shared, pc, call, jid, exc, ret, callHistory, history, startLocals>>

\* a call of _get_appropriate_setting on its own, lines 309-338
SynthSelect ==
    /\ synth.stage = "select_called"
    /\ synth' = [synth EXCEPT
                   !.stage = "selected",
                   !.setting = _get_appropriate_setting(synth.tag)]
    /\ UNCHANGED <<catalog, shared, pc, call, jid, exc, ret, callHistory, history, startLocals>>

SynthNext == SynthCategorize \/ SynthReturn \/ SynthSelect

SynthSpec == SynthInit /\ [][SynthNext]_vars

\* ------------------------------------------------------------ properties
StartPcs == {"s_submit", "s_set_gen", "s_fail"}
CheckPcs == {"c_poll", "c_download", "c_save_begin", "c_save_end", "c_set_completed",
             "c_set_result", "c_empty", "c_empty_error", "c_view", "c_exc", "c_exc_error"}

\* thread t takes a step of a call it is in the middle of
Acts(t) == pc[t] # "idle" /\ pc'[t] # pc[t]
\* a call begins and ends in one step (unknown product, unknown job id)
ImmediateCall == calls' = calls + 1 /\ pc' = pc

\* some thread is between the status write of a transition of job j and the
\* write of the field that goes with it
MidTransition(j) ==
    \E t \in Threads :
        jid[t] = j /\ pc[t] \in {"s_fail", "c_set_result", "c_empty_error", "c_exc_error"}

HasHandle(job) == job.operation # NoneOperation
HasResult(job) == job.video_filename # MissingFile
HasError(job) == job.error # None

\* C1: for a job whose operation completed with a video, however many
\* check_job_status calls interleave, the download and the file write happen
\* at most once and status is set to completed at most once.
C1_AtMostOnePersist ==
    \A j \in JobIds : downloads[j] <= 1 /\ saves[j] <= 1 /\ completions[j] <= 1

\* C2: once a job is completed or failed, no step of any call changes its
\* status, video_filename, error, product or prompt (the write that completes
\* a transition, by the call that made it, is not counted as a change).
C2_TerminalImmutable ==
    [][\A j \in DOMAIN jobs :
          (jobs[j].status \in Terminal /\ ~MidTransition(j)) =>
             /\ jobs'[j].status = jobs[j].status
             /\ jobs'[j].video_filename = jobs[j].video_filename
             /\ jobs'[j].error = jobs[j].error
             /\ jobs'[j].product = jobs[j].product
             /\ jobs'[j].prompt = jobs[j].prompt]_vars

\* C3: every registered job that is not starting (and not in the middle of a
\* transition) has exactly one of operation, video_filename, error set:
\* generating the operation, completed the video_filename, failed the error.
C3_ExactlyOneOf ==
    \A j \in DOMAIN jobs :
        (jobs[j].status # "starting" /\ ~MidTransition(j)) =>
            /\ jobs[j].status = "generating" =>
                 HasHandle(jobs[j]) /\ ~HasResult(jobs[j]) /\ ~HasError(jobs[j])
            /\ jobs[j].status = "completed" =>
                 ~HasHandle(jobs[j]) /\ HasResult(jobs[j]) /\ ~HasError(jobs[j])
            /\ jobs[j].status = "failed" =>
                 ~HasHandle(jobs[j]) /\ ~HasResult(jobs[j]) /\ HasError(jobs[j])

C6_StartReturnsRegistered ==
    [][\A t \in Threads :
         /\ (pc'[t] = "idle" /\ ret'[t].kind = "return") =>
               /\ call'[t] = "start"
               /\ ret'[t].job_id = jid'[t]
               /\ jid'[t] \in DOMAIN jobs'
               /\ jobs'[jid'[t]].status # "starting"
         /\ (Acts(t) /\ pc'[t] = "idle" /\ ret'[t].kind = "return") =>
               /\ jobs'[jid[t]].status \in {"generating", "failed"}
               /\ pollsInCall[t] = 0
         /\ (pc'[t] \in StartPcs) => pollsInCall'[t] = 0 /\ pollRes'[t] = None]_vars

C6_Witness ==
    \E t \in Threads :
        /\ pc[t] = "idle" /\ ret[t].kind = "return"
        /\ jobs[ret[t].job_id].status = "generating"
        /\ opState[ret[t].job_id] = "pending"

\* C7: check_job_status for a job id that is not in the registry returns the
\* not_found view in its first step, which changes neither the registry, the
\* files nor any operation and issues no poll; a check call never adds a key.
C7_UnknownIdNotFound ==
    [][/\ \A t \in Threads :
            (pc'[t] = "idle" /\ call'[t] = "check" /\ jid'[t] \notin DOMAIN jobs') =>
                ret'[t] = NotFoundView
       /\ \A t \in Threads :
            (pc[t] = "idle" /\ call'[t] = "check" /\ pc'[t] # "idle") =>
                jid'[t] \in DOMAIN jobs /\ jobs' = jobs
       /\ (ImmediateCall /\ \E t \in Threads : call'[t] = "check" /\ ret'[t] = NotFoundView) =>
            /\ UNCHANGED <<jobs, files, opState, nextId, history>>
            /\ UNCHANGED <<pollsInCall, writesInCall>>
       /\ \A t \in Threads :
            (Acts(t) /\ call[t] = "check") => DOMAIN jobs' = DOMAIN jobs]_vars

C7_Witness ==
    \E t \in Threads :
        /\ pc[t] = "idle" /\ call[t] = "check"
        /\ jid[t] \notin DOMAIN jobs
        /\ ret[t] = NotFoundView
        /\ DOMAIN jobs # {}

\* C8: a check_job_status call that finds the job completed or failed issues
\* no poll, no download and no file write, changes nothing, and returns the
\* view of the stored job, whose status is completed or failed.
C8_TerminalNoContact ==
    [][\A t \in Threads :
         /\ (pc'[t] \in CheckPcs /\ statusAtCall'[t] \in Terminal) =>
               /\ pc'[t] = "c_view"
               /\ pollsInCall'[t] = 0
               /\ writesInCall'[t] = 0
         /\ (Acts(t) /\ call[t] = "check" /\ statusAtCall[t] \in Terminal) =>
               /\ UNCHANGED <<jobs, files, opState, history>>
               /\ ret'[t] = JobView(jobs[jid[t]])
               /\ ret'[t].status \in Terminal]_vars

C8_Witness ==
    \E t \in Threads :
        /\ pc[t] = "c_view"
        /\ statusAtCall[t] = "completed"
        /\ files[jid[t]] = "complete"

\* C9: with requests served one at a time, a check_job_status call on a
\* generating job whose poll answers not done changes no field of any job and
\* no file, and returns the view with status generating, no video_filename
\* and no error; a repeated call finds the same state and returns the same.
GeneratingView(job) == View("generating", job.product, NoneFile, None)

C9_PendingPollIdempotent ==
    [][\A t \in Threads :
         /\ (Acts(t) /\ pc[t] = "c_poll" /\ pollRes'[t] = "pending") =>
               /\ pc'[t] = "c_view"
               /\ UNCHANGED <<jobs, files, opState, history>>
         /\ (Acts(t) /\ pollRes[t] = "pending") =>
               /\ pc'[t] = "idle"
               /\ UNCHANGED <<jobs, files, opState, history>>
               /\ jobs[jid[t]].status = "generating"
               /\ ret'[t] = GeneratingView(jobs[jid[t]])]_vars

C9_Witness ==
    \E t \in Threads :
        /\ pc[t] = "c_view" /\ pollRes[t] = "pending"
        /\ ret[t] = NoRet
        /\ calls >= 3

\* C10: one check_job_status call issues at most one poll, and issues it
\* only if it found the job's status to be generating.
C10_AtMostOnePoll ==
    [][\A t \in Threads :
         /\ pollsInCall'[t] <= 1
         /\ (pollsInCall'[t] = 1 \/ pc'[t] = "c_poll") =>
               call'[t] = "check" /\ statusAtCall'[t] = "generating"
         /\ pollsInCall'[t] # pollsInCall[t] =>
               \/ pc[t] = "c_poll" /\ pollsInCall[t] = 0 /\ pollsInCall'[t] = 1
               \/ pollsInCall'[t] = 0]_vars

C10_Witness ==
    \E t \in Threads :
        /\ pollsInCall[t] = 1
        /\ pc[t] = "c_download"
        /\ statusAtCall[t] = "generating"

\* C11: for a registered job, every view check_job_status returns carries the
\* job's status and its product, on the except path too.
C11_ViewHasStatusAndProduct ==
    \A t \in Threads :
        (pc[t] = "idle" /\ call[t] = "check" /\ ret[t].kind = "view"
           /\ ret[t].status # "not_found") =>
            /\ ret[t].status # Missing
            /\ ret[t].product # MissingProduct

\* C12: every job whose status is completed has its file, completely written,
\* under the name made of its own job id.
C12_CompletedHasPersistedFile ==
    \A j \in DOMAIN jobs :
        jobs[j].status = "completed" => files[video_filename_of(j).stem] = "complete"

\* C13: an operation done without videos makes the polling call set the job
\* failed with a non-empty error; no file is written and no video_filename is
\* set for that job; a later call on the failed job returns failed and polls
\* nothing.
C13_EmptyResultFails ==
    [][ /\ \A j \in DOMAIN jobs' :
              opState'[j] = "done_empty" =>
                  /\ files'[video_filename_of(j).stem] = "absent"
                  /\ ~HasResult(jobs'[j])
                  /\ jobs'[j].status # "completed"
                  /\ downloads'[j] = 0
        /\ \A t \in Threads :
              /\ (pc[t] = "c_empty" /\ Acts(t)) => jobs'[jid[t]].status = "failed"
              /\ (pc[t] = "c_empty_error" /\ Acts(t)) =>
                    /\ jobs'[jid[t]].status = "failed"
                    /\ jobs'[jid[t]].error \notin {None, Missing, ""}
              /\ (call[t] = "check" /\ Acts(t) /\ pc'[t] = "idle"
                    /\ statusAtCall[t] = "failed" /\ opState[jid[t]] = "done_empty") =>
                    /\ pollsInCall[t] = 0
                    /\ ret'[t].kind = "view"
                    /\ ret'[t].status = "failed"
      ]_vars

\* a call on a job that an empty result has failed is about to return
C13_Witness ==
    \E t \in Threads :
        /\ pc[t] = "c_view"
        /\ statusAtCall[t] = "failed"
        /\ opState[jid[t]] = "done_empty"
        /\ jobs[jid[t]].error = "Video generation completed but no videos were generated"
        /\ pollsInCall[t] = 0

\* C14: the call whose download or save raised ends with the job failed, the
\* raised error in the job's error field and no video_filename on the job.
C14_PersistErrorFails ==
    [][ \A t \in Threads :
          (pc[t] = "c_exc_error" /\ pc'[t] = "idle"
             /\ exc[t] \in {"download error", "save error"}) =>
              /\ jobs'[jid[t]].status = "failed"
              /\ jobs'[jid[t]].error = exc[t]
              /\ ~HasResult(jobs'[jid[t]])
      ]_vars

\* C20: a job's status changes only along starting -> generating,
\* starting -> failed, generating -> completed, generating -> failed.
C20_StatusGraph ==
    [][ \A j \in DOMAIN jobs :
          jobs'[j].status # jobs[j].status =>
              <<jobs[j].status, jobs'[j].status>> \in
                  {<<"starting", "generating">>, <<"starting", "failed">>,
                   <<"generating", "completed">>, <<"generating", "failed">>}
      ]_vars

\* C15: every failing outcome of the image pipeline (no picture URL, fetch
\* error, bad status, timeout, undecodable bytes) yields no image; whenever
\* the pipeline yielded no image, start hands generate_videos the prompt
\* alone; the job is set failed in start only when generate_videos itself
\* raised; and after a successful submission start sets the job generating
\* and returns its id.
C15_ImageFailureNonFatal ==
    [][ \A t \in Threads :
          /\ (pc[t] = "s_submit" /\ Acts(t)) =>
                /\ imageOutcome'[t] \in
                     {_fetch_product_image(jobs[jid[t]].product, o).left : o \in ImageOutcomes}
                /\ \A o \in ImageOutcomes \ {"ok"} :
                     _fetch_product_image(jobs[jid[t]].product, o).image_data = NoneImage
                /\ imageOutcome'[t] \in {"no_picture", "exception"} =>
                     submission'[t] = "prompt_only"
                /\ jobs'[jid[t]].status = "failed" => exc'[t] = "submit error"
                /\ exc'[t] = None =>
                      /\ pc'[t] = "s_set_gen"
                      /\ opState'[jid[t]] = "pending"
                      /\ jobs'[jid[t]].status = "starting"
          /\ (pc[t] = "s_set_gen" /\ Acts(t)) =>
                /\ jobs'[jid[t]].status = "generating"
                /\ ret'[t] = Returned(jid[t])
      ]_vars

\* two starts have submitted with the prompt alone and are about to set their
\* jobs generating: one found no picture URL, the other's fetch ended in the
\* except clause
C15_Witness ==
    \E t, u \in Threads :
        /\ pc[t] = "s_set_gen" /\ pc[u] = "s_set_gen"
        /\ imageOutcome[t] = "no_picture" /\ imageOutcome[u] = "exception"
        /\ submission[t] = "prompt_only" /\ submission[u] = "prompt_only"
        /\ opState[jid[t]] = "pending" /\ opState[jid[u]] = "pending"

\* C16: get_video_path returns a path only for a file that is completely
\* written.
C16_RetrieveOnlyComplete ==
    [][ \A t \in Threads :
          (Accepts(t) /\ call'[t] = "retrieve" /\ calls' = calls + 1
             /\ ret'[t].kind = "path") =>
              files[ret'[t].video_filename.stem] = "complete"
      ]_vars

\* C17: while calls for two different job ids are both under way, each of
\* them has its next step enabled, wherever the other one stands; and an idle
\* handler can take a check of any job id while other calls are under way.
C17_NoCrossJobBlocking ==
    /\ \A t, u \in Threads :
          (t # u /\ pc[t] # "idle" /\ pc[u] # "idle" /\ jid[t] # jid[u]) =>
              ENABLED (StartStep(t) \/ CheckStep(t))
    /\ \A t \in Threads :
          (Accepts(t) /\ calls < MaxCalls /\ \E u \in Threads : pc[u] # "idle") =>
              \A j \in JobIds : ENABLED CheckCall(t, j)

\* a check of job 1 is in the middle of writing the file while a start for
\* another job is about to submit
C17_Witness ==
    \E t, u \in Threads :
        /\ pc[t] = "c_save_end" /\ call[t] = "check"
        /\ pc[u] = "s_submit" /\ call[u] = "start"
        /\ jid[t] # jid[u]
        /\ files[video_filename_of(jid[t]).stem] = "partial"

\* C18: the product type is the tag of the first rule, in the order fashion,
\* accessories, home, tech, that the lower-cased categories or the
\* lower-cased name match, and lifestyle when none matches; categories
\* ["clothing"] with the name "Leather Watch" give fashion.
C18_FirstMatchWins ==
    synth.stage \in {"categorized", "returned"} =>
        LET name_lower == lower(synth.product.name)
            cats == synth.product.categories
            categories_lower == [i \in 1..Len(cats) |-> lower(cats[i])]
            Priority == <<"fashion", "accessories", "home", "tech">>
            Words == <<FashionCategories, AccessoriesCategories, HomeCategories, TechCategories>>
            Keywords == <<FashionKeywords, AccessoriesKeywords, HomeKeywords, TechKeywords>>
            Matching == {i \in 1..4 : RuleMatches(Words[i], Keywords[i], categories_lower, name_lower)}
        IN  /\ Matching = {} => synth.product_type = "lifestyle"
            /\ Matching # {} =>
                  \E i \in Matching :
                      /\ \A k \in Matching : i <= k
                      /\ synth.product_type = Priority[i]
            /\ (cats = <<<<"c", "l", "o", "t", "h", "i", "n", "g">>>>
                  /\ synth.product.name =
                       <<"L", "e", "a", "t", "h", "e", "r", " ", "W", "a", "t", "c", "h">>)
                 => synth.product_type = "fashion"

\* the classifier has returned for categories ["clothing"], name
\* "Leather Watch", which the fashion and the accessories rule both match
C18_Witness ==
    /\ synth.stage = "categorized"
    /\ synth.product.categories = <<<<"c", "l", "o", "t", "h", "i", "n", "g">>>>
    /\ synth.product.name = <<"L", "e", "a", "t", "h", "e", "r", " ", "W", "a", "t", "c", "h">>
    /\ synth.product_type = "fashion"

SameBrief(p, q) ==
    /\ p.name = q.name
    /\ p.description = q.description
    /\ p.categories = q.categories
    /\ p.price_usd = q.price_usd

\* C19: generate_ad_prompt returns the same prompt for two products that have
\* the same name, description, categories and price, whatever else differs,
\* and its steps leave the job registry and the files as they were.
C19_PromptDependsOnBriefOnly ==
    [][ /\ synth' # synth => UNCHANGED <<jobs, files, opState>>
        /\ (synth'.stage = "returned" /\ SameBrief(synth'.product, synth'.other)) =>
              synth'.prompt = synth'.other_prompt
      ]_vars

\* prompts have been returned for two products that differ in id and picture
\* only, with a job in the registry
C19_Witness ==
    /\ synth.stage = "returned"
    /\ SameBrief(synth.product, synth.other)
    /\ synth.product.id # synth.other.id
    /\ synth.product.picture # synth.other.picture
    /\ synth.prompt = synth.other_prompt
    /\ synth.prompt # <<>>
    /\ 1 \in DOMAIN jobs

\* C24: a registered job holds an operation only while its status is
\* generating (the moment between the two assignments of lines 455-456 set
\* aside).
C24_HandleOnlyWhileGenerating ==
    \A j \in DOMAIN jobs :
        (HasHandle(jobs[j]) /\ ~\E t \in Threads : jid[t] = j /\ pc[t] = "s_set_gen") =>
            jobs[j].status = "generating"

\* C25: a registered job has an error only if its status is failed.
C25_ErrorOnlyWhenFailed ==
    \A j \in DOMAIN jobs : HasError(jobs[j]) => jobs[j].status = "failed"

\* C26: the start step that creates a job uses an id that was not a key of
\* the registry, adds exactly that key and leaves every other job record as
\* it was; no two start calls under way have the same job id.
C26_FreshJobId ==
    [][ /\ \A t \in Threads :
              (Accepts(t) /\ call'[t] = "start" /\ pc'[t] = "s_submit") =>
                  /\ jid'[t] \notin DOMAIN jobs
                  /\ DOMAIN jobs' = DOMAIN jobs \cup {jid'[t]}
                  /\ \A j \in DOMAIN jobs : jobs'[j] = jobs[j]
        /\ \A t, u \in Threads :
              (t # u /\ pc'[t] \in StartPcs /\ pc'[u] \in StartPcs) => jid'[t] # jid'[u]
        /\ \A j \in DOMAIN jobs : j \in DOMAIN jobs'
      ]_vars

\* two start calls are under way at once, each with its own job record, and
\* one of the two has already submitted its generation request
C26_Witness ==
    \E t, u \in Threads :
        /\ t # u
        /\ pc[t] \in StartPcs /\ pc[u] \in StartPcs
        /\ jid[t] # jid[u]
        /\ jid[t] \in DOMAIN jobs /\ jid[u] \in DOMAIN jobs
        /\ jobs[jid[t]].operation # NoneOperation

\* C22: generate_videos is called at most once per job, and a start or check
\* call accepted after the job's status was set to failed goes straight to
\* building the view: it reaches neither the submission nor the poll, and
\* leaves the registry, the operation, the counters and the files as they
\* were; the one submission
\* of a job is made before any failure of that job.
C22_NoRetry ==
    [][ /\ \A j \in JobIds : submits'[j] <= 1
        /\ \A t \in Threads :
              (Accepts(t) /\ calls' = calls + 1 /\ call'[t] \in {"start", "check"}
                          /\ jid'[t] \in failedJobs) =>
                  /\ pc'[t] = "c_view"
                  /\ UNCHANGED <<jobs, opState, files, history>>
        /\ \A t \in Threads :
              (pc[t] = "s_submit" /\ Acts(t)) => jid[t] \notin failedJobs
      ]_vars

\* a job failed at its poll or its persist step and a later check call for
\* it has returned the failed view
C22_Witness ==
    \E j \in failedJobs : \E t \in Threads :
        /\ submits[j] = 1
        /\ HasHandle(jobs[j])
        /\ jobs[j].status = "failed"
        /\ HasError(jobs[j])
        /\ pc[t] = "idle" /\ call[t] = "check" /\ jid[t] = j
        /\ ret[t] = JobView(jobs[j])
        /\ \A u \in Threads : pc[u] = "idle"

\* C30: the file <f>.mp4 changes only in a step of a check call for job f
\* which found the job generating and whose poll answered done with a video;
\* every file in the videos directory is named after a registered job.
C30_ResultStoreIsolation ==
    [][ \A f \in JobIds :
          /\ files'[f] # files[f] =>
                \E t \in Threads :
                    /\ Acts(t)
                    /\ call[t] = "check"
                    /\ jid[t] = f
                    /\ statusAtCall[t] = "generating"
                    /\ pollRes[t] = "done_video"
          /\ files'[f] # "absent" => f \in DOMAIN jobs'
      ]_vars

\* a check call for job 2 has written job 2's file, completely, while job 1,
\* registered and generating, has no file
C30_Witness ==
    /\ 1 \in DOMAIN jobs /\ 2 \in DOMAIN jobs
    /\ files[2] = "complete" /\ saves[2] = 1
    /\ files[1] = "absent"
    /\ jobs[1].status = "generating"

\* C21: a step that changes the status of a generating job, or the file
\* named after it, is a step of a check call for that job; the operation
\* finishing changes neither.
C21_ProgressOnlyInCheck ==
    [][ \A j \in DOMAIN jobs :
          (jobs[j].status = "generating" /\
              (jobs'[j].status # jobs[j].status \/ files'[j] # files[j])) =>
                \E t \in Threads : Acts(t) /\ call[t] = "check" /\ jid[t] = j
      ]_vars

\* the operation of job 2 has finished, no check was ever called for job 2
\* (the requests were its start and calls for job 1), and job 2 is still
\* generating with no file
C21_Witness ==
    /\ 2 \in DOMAIN jobs
    /\ opState[2] \in {"done_video", "done_empty"}
    /\ jobs[2].status = "generating"
    /\ files[2] = "absent"
    /\ downloads[2] = 0
    /\ \A t \in Threads : pc[t] = "idle" /\ (call[t] = "check" => jid[t] # 2)
    /\ \E t \in Threads : call[t] = "check" /\ jid[t] = 1

\* C23: no step changes the product or the prompt of a registered job, the
\* view a check call returns carries the job's stored product, and a change
\* of the catalog changes no job.
C23_SnapshotFixed ==
    [][ /\ \A j \in DOMAIN jobs :
              /\ j \in DOMAIN jobs'
              /\ jobs'[j].product = jobs[j].product
              /\ jobs'[j].prompt = jobs[j].prompt
        /\ \A t \in Threads :
              (pc[t] = "c_view" /\ Acts(t)) =>
                  /\ ret'[t].kind = "view"
                  /\ ret'[t].product = jobs[jid[t]].product
        /\ catalog' # catalog => UNCHANGED <<jobs, ret>>
      ]_vars

\* a check call has returned the view of a job for product P1 whose stored
\* product is no longer what the catalog answers for P1
C23_Witness ==
    \E j \in DOMAIN jobs : \E t \in Threads :
        /\ jobs[j].product_id = "P1"
        /\ jobs[j].product # get_product_ok("P1")
        /\ jobs[j].prompt # generate_ad_prompt(get_product_ok("P1"))
        /\ pc[t] = "idle" /\ call[t] = "check" /\ jid[t] = j
        /\ ret[t].kind = "view"
        /\ ret[t].product = jobs[j].product

\* the prompt has the value v put in
PromptHas(prompt, v) == \E i \in DOMAIN prompt : prompt[i] = v

\* C27: the prompt returned for a product contains the product's name, the
\* first 100 characters of its description, the price text "$" units "."
\* nanos padded to two digits, and the description, atmosphere and elements
\* of the setting selected for the product.
C27_PromptContents ==
    synth.stage = "returned" =>
        LET product == synth.product
            setting == _get_appropriate_setting(
                           _categorize_product(product.categories, product.name))
        IN  /\ PromptHas(synth.prompt, ProductText(product.name))
            /\ PromptHas(synth.prompt, ProductText(Slice(product.description, DescriptionLimit)))
            /\ PromptHas(synth.prompt, ProductText(price_text(product.price_usd)))
            /\ PromptHas(synth.prompt, SettingText(setting.description))
            /\ PromptHas(synth.prompt, SettingText(setting.atmosphere))
            /\ PromptHas(synth.prompt, SettingText(setting.elements))

\* C28: _get_appropriate_setting returns, for each of the five known tags,
\* the entry of the settings dict under that tag, and for any other tag the
\* lifestyle entry; it returns for every tag, and never the entry of another
\* known tag.
C28_SettingSelector ==
    /\ synth.stage = "select_called" => ENABLED SynthSelect
    /\ synth.stage = "selected" =>
          /\ synth.tag \in KnownTags => synth.setting = settings[synth.tag]
          /\ synth.tag \notin KnownTags => synth.setting = settings["lifestyle"]
          /\ \A k \in KnownTags :
                synth.setting = settings[k] =>
                    (k = synth.tag \/ (synth.tag \notin KnownTags /\ k = "lifestyle"))

\* the selector was called with a tag that is no key of the dict (a known
\* tag in capitals) and returned the lifestyle entry
C28_Witness ==
    /\ synth.stage = "selected"
    /\ synth.tag = "FASHION"
    /\ synth.setting = settings["lifestyle"]
    /\ synth.setting # settings["fashion"]

\* C29: with check_job_status called again and again and an operation that
\* reports done at some poll, a generating job becomes completed or failed;
\* and once a check call has downloaded and saved the video, the job's
\* status is set to completed.
C29_EventuallyTerminal ==
    \A j \in LiveJobs :
        /\ (jobs[j].status = "generating") ~> (jobs[j].status \in Terminal)
        /\ (saves[j] >= 1) ~> (completions[j] >= 1)

\* after polls that found the operation pending, a check call found it done
\* with a video, saved it, and the job is completed
C29_Witness ==
    /\ 1 \in DOMAIN jobs
    /\ jobs[1].status = "completed"
    /\ saves[1] = 1
    /\ files[1] = "complete"
    /\ \E t \in Threads : ret[t] = GeneratingView(jobs[1])
    /\ \A t \in Threads : pc[t] = "idle"

====
